---- MODULE Spec2Model ----
(***************************************************************************)
(* Model of the admin gate, the token codec and the banner endpoints of    *)
(* the goftus backend (src/unnamed/part_000).                              *)
(*                                                                         *)
(* Strings are sequences of Unicode code points, byte buffers are          *)
(* sequences of 0..255.  The storage backend (supabase) is a pair of       *)
(* tables; every storage call of a handler takes an input saying whether   *)
(* the call fails in transport, besides the errors the query itself makes  *)
(* (no row for .single(), several rows for .maybeSingle(), malformed id).  *)
(***************************************************************************)
EXTENDS Integers, Sequences, FiniteSets, TLC

\* ------------------------------------------------------------------------
\* Values of the JavaScript run time
\* ------------------------------------------------------------------------

\* JavaScript's null and undefined where a string is expected: sequences that
\* are no string
Null == <<-1>>
Undefined == <<-2>>

\* a string or buffer s starting with the string p (String.prototype.startsWith)
StartsWith(s, p) ==
    /\ Len(s) >= Len(p)
    /\ SubSeq(s, 1, Len(p)) = p

\* s.slice(n): s without its first n elements
Slice(s, n) == SubSeq(s, n + 1, Len(s))

\* !v for the values of the model: undefined, null and "" are falsy
Falsy(v) == v = Undefined \/ v = Null \/ v = <<>>

\* ------------------------------------------------------------------------
\* Buffer.from(string) / buf.toString("utf8"): UTF-8
\* ------------------------------------------------------------------------

\* U+FFFD, which the decoder puts for bytes that are not UTF-8
Replacement == 65533

\* the UTF-8 bytes of one code point; a lone surrogate becomes U+FFFD
Utf8OfCodePoint(c) ==
    IF c < 128 THEN <<c>>
    ELSE IF c < 2048 THEN <<192 + (c \div 64), 128 + (c % 64)>>
    ELSE IF c >= 55296 /\ c <= 57343 THEN <<239, 191, 189>>
    ELSE IF c < 65536
        THEN <<224 + (c \div 4096), 128 + ((c \div 64) % 64), 128 + (c % 64)>>
    ELSE <<240 + (c \div 262144), 128 + ((c \div 4096) % 64),
           128 + ((c \div 64) % 64), 128 + (c % 64)>>

RECURSIVE Utf8Encode(_)
Utf8Encode(str) ==
    IF str = <<>> THEN <<>>
    ELSE Utf8OfCodePoint(Head(str)) \o Utf8Encode(Tail(str))

\* how many continuation bytes the lead byte b announces; -1: not a lead byte
Utf8Need(b) ==
    IF b < 128 THEN 0
    ELSE IF b >= 194 /\ b <= 223 THEN 1
    ELSE IF b >= 224 /\ b <= 239 THEN 2
    ELSE IF b >= 240 /\ b <= 244 THEN 3
    ELSE -1

\* the range the byte after lead byte b must lie in
Utf8SecondLow(b) == IF b = 224 THEN 160 ELSE IF b = 240 THEN 144 ELSE 128
Utf8SecondHigh(b) == IF b = 237 THEN 159 ELSE IF b = 244 THEN 143 ELSE 191

\* how many continuation bytes of the sequence starting at bytes[1] are there
\* and well-formed, out of the need announced
RECURSIVE Utf8Got(_, _, _)
Utf8Got(bytes, need, k) ==
    IF k > need \/ k + 1 > Len(bytes) THEN k - 1
    ELSE LET b == bytes[k + 1]
             lo == IF k = 1 THEN Utf8SecondLow(bytes[1]) ELSE 128
             hi == IF k = 1 THEN Utf8SecondHigh(bytes[1]) ELSE 191
         IN IF b >= lo /\ b <= hi THEN Utf8Got(bytes, need, k + 1) ELSE k - 1

\* the code point of a complete sequence of 1 + need bytes
Utf8Value(bytes, need) ==
    IF need = 0 THEN bytes[1]
    ELSE IF need = 1 THEN (bytes[1] - 192) * 64 + (bytes[2] - 128)
    ELSE IF need = 2
        THEN (bytes[1] - 224) * 4096 + (bytes[2] - 128) * 64 + (bytes[3] - 128)
    ELSE (bytes[1] - 240) * 262144 + (bytes[2] - 128) * 4096
         + (bytes[3] - 128) * 64 + (bytes[4] - 128)

\* buf.toString("latin1") in place of "utf8": one character per byte
Utf8DecodeLatin1(bytes) == bytes

\* buf.toString("utf8"): never fails, each maximal ill-formed part is U+FFFD
RECURSIVE Utf8Decode(_)
Utf8Decode(bytes) ==
    IF bytes = <<>> THEN <<>>
    ELSE LET need == Utf8Need(bytes[1])
         IN IF need = -1 THEN <<Replacement>> \o Utf8Decode(Tail(bytes))
            ELSE LET got == Utf8Got(bytes, need, 1)
                 IN IF got = need
                    THEN <<Utf8Value(bytes, need)>> \o Utf8Decode(Slice(bytes, need + 1))
                    ELSE <<Replacement>> \o Utf8Decode(Slice(bytes, got + 1))

\* ------------------------------------------------------------------------
\* buf.toString("base64") / Buffer.from(string, "base64")
\* ------------------------------------------------------------------------

\* the character of the 6-bit value i
B64Char(i) ==
    IF i < 26 THEN 65 + i
    ELSE IF i < 52 THEN 97 + (i - 26)
    ELSE IF i < 62 THEN 48 + (i - 52)
    ELSE IF i = 62 THEN 43
    ELSE 47

\* "="
B64Pad == 61

\* the 6-bit value of character c, 64 when c is not a base64 character; the
\* decoder takes the URL-safe "-" and "_" as well
Unbase64(c) ==
    IF c >= 65 /\ c <= 90 THEN c - 65
    ELSE IF c >= 97 /\ c <= 122 THEN c - 97 + 26
    ELSE IF c >= 48 /\ c <= 57 THEN c - 48 + 52
    ELSE IF c = 43 \/ c = 45 THEN 62
    ELSE IF c = 47 \/ c = 95 THEN 63
    ELSE 64

RECURSIVE Base64Encode(_)
Base64Encode(bytes) ==
    IF bytes = <<>> THEN <<>>
    ELSE IF Len(bytes) = 1
        THEN <<B64Char(bytes[1] \div 4), B64Char((bytes[1] % 4) * 16), B64Pad, B64Pad>>
    ELSE IF Len(bytes) = 2
        THEN <<B64Char(bytes[1] \div 4),
               B64Char((bytes[1] % 4) * 16 + (bytes[2] \div 16)),
               B64Char((bytes[2] % 16) * 4), B64Pad>>
    ELSE <<B64Char(bytes[1] \div 4),
           B64Char((bytes[1] % 4) * 16 + (bytes[2] \div 16)),
           B64Char((bytes[2] % 16) * 4 + (bytes[3] \div 64)),
           B64Char(bytes[3] % 64)>> \o Base64Encode(Slice(bytes, 3))

\* the 6-bit values of the text up to its first "=", characters that are not
\* base64 skipped
RECURSIVE B64Values(_)
B64Values(text) ==
    IF text = <<>> \/ Head(text) = B64Pad THEN <<>>
    ELSE IF Unbase64(Head(text)) = 64 THEN B64Values(Tail(text))
    ELSE <<Unbase64(Head(text))>> \o B64Values(Tail(text))

\* the bytes of groups of four 6-bit values; a last group of two or three
\* values gives one or two bytes, a single left-over value gives none
RECURSIVE B64Bytes(_)
B64Bytes(v) ==
    IF Len(v) < 2 THEN <<>>
    ELSE IF Len(v) = 2 THEN <<v[1] * 4 + (v[2] \div 16)>>
    ELSE IF Len(v) = 3
        THEN <<v[1] * 4 + (v[2] \div 16), (v[2] % 16) * 16 + (v[3] \div 4)>>
    ELSE <<v[1] * 4 + (v[2] \div 16), (v[2] % 16) * 16 + (v[3] \div 4),
           (v[3] % 4) * 64 + v[4]>> \o B64Bytes(Slice(v, 4))

\* Buffer.from(text, "base64"): never fails
Base64Decode(text) == B64Bytes(B64Values(text))

\* ------------------------------------------------------------------------
\* The token codec
\* ------------------------------------------------------------------------

\* "."
Dot == 46

\* process.env.ADMIN_TOKEN || "goftus-admin-token"
ADMIN_TOKEN ==
    <<103, 111, 102, 116, 117, 115, 45, 97, 100, 109, 105, 110, 45,
      116, 111, 107, 101, 110>>

encodeAdminToken(email) ==
    ADMIN_TOKEN \o <<Dot>> \o Base64Encode(Utf8Encode(email))

\* the prefix tested without its "."
decodeAdminEmailNoDot(token) ==
    IF ~StartsWith(token, ADMIN_TOKEN) THEN Null
    ELSE Utf8Decode(Base64Decode(Slice(token, Len(ADMIN_TOKEN) + 1)))

decodeAdminEmail(token) ==
    IF ~StartsWith(token, ADMIN_TOKEN \o <<Dot>>) THEN Null
    ELSE Utf8Decode(Base64Decode(Slice(token, Len(ADMIN_TOKEN) + 1)))

\* ------------------------------------------------------------------------
\* State
\* ------------------------------------------------------------------------

VARIABLES
    ADMIN_EMAIL,      \* process.env.ADMIN_EMAIL, fixed when the process starts
    ADMIN_PASSWORD,   \* process.env.ADMIN_PASSWORD, fixed when the process starts
    admin_users,      \* the rows of table admin_users: id, email, password_hash
    banners,          \* the rows of table banners: id, is_active
    nextUserId,       \* the id the next inserted admin_users row gets
    nextBannerId,     \* the id the next inserted banners row gets
    last,             \* the request answered last: what it was and what it got
    cEmail,           \* codec run: the email encoded
    cToken,           \* codec run: the token in hand
    cOut,             \* codec run: what decodeAdminEmail returned
    cPc,              \* codec run: the position of the run
    issued,           \* the tokens logins have returned, with the isSuperAdmin
                      \* told and the id of the admin_users row matched (0: none)
    inflight          \* step-wise run: the banner request each client has in flight

tables == <<admin_users, banners, nextUserId, nextBannerId>>
config == <<ADMIN_EMAIL, ADMIN_PASSWORD>>
codec == <<cEmail, cToken, cOut, cPc>>
vars == <<ADMIN_EMAIL, ADMIN_PASSWORD, admin_users, banners, nextUserId,
          nextBannerId, last, cEmail, cToken, cOut, cPc, issued, inflight>>

\* ------------------------------------------------------------------------
\* Bounds and the values requests are made of
\* ------------------------------------------------------------------------

\* longest email of a codec run
MaxLen == 3
\* how many banners rows are ever inserted
MaxBanners == 2
\* how many admin_users rows are ever inserted
MaxUsers == 2

\* "a", "@", e acute (2 bytes), euro sign (3 bytes), an emoji (4 bytes)
CodecAlphabet == {97, 64, 233, 8364, 128512}

\* the strings over CodecAlphabet of length 1..n
RECURSIVE StringsUpTo(_)
StringsUpTo(n) ==
    IF n = 0 THEN {}
    ELSE StringsUpTo(n - 1) \cup [1..n -> CodecAlphabet]

\* "a@x", the email the primary admin is configured with
PrimaryEmail == <<97, 64, 120>>
\* "b@xy", the email of a secondary admin
SecondaryEmail == <<98, 64, 120, 121>>
\* "p" and "q"
PasswordP == <<112>>
PasswordQ == <<113>>

Emails == {PrimaryEmail, SecondaryEmail}
Passwords == {PasswordP, PasswordQ}

\* "Bearer "
Bearer == <<66, 101, 97, 114, 101, 114, 32>>

\* the tokens requests carry: the one of each email, and the primary admin's
\* with "x" in place of the "." and with "x" in place of the first character
\* of the secret
Tokens ==
    {encodeAdminToken(e) : e \in Emails}
    \cup {ADMIN_TOKEN \o <<120>> \o Base64Encode(Utf8Encode(PrimaryEmail)),
          <<120>> \o Slice(encodeAdminToken(PrimaryEmail), 1)}

\* the Authorization headers: absent, the raw token, "Bearer <token>"
Headers ==
    {Undefined} \cup Tokens \cup {Bearer \o encodeAdminToken(PrimaryEmail)}

\* the headers of the requests to the banner routes: none, the primary
\* admin's token, the token of an email that has no account
BannerHeaders ==
    {Undefined, encodeAdminToken(PrimaryEmail), encodeAdminToken(SecondaryEmail)}

\* a malformed id, which the id column of the table rejects
BadId == -1

\* the ids requests name: those rows can get, and the malformed one
BannerIds == 1..MaxBanners \cup {BadId}
UserIds == 1..MaxUsers \cup {BadId}

\* ------------------------------------------------------------------------
\* The storage backend
\* ------------------------------------------------------------------------

\* data of a query that returned no row
NullRow == [id |-> 0]

\* the result of a query: an error or the row it returned
Result(error, data) == [error |-> error, data |-> data]

\* .maybeSingle(): no row is null data, several rows are an error
maybeSingle(rows, fault) ==
    IF fault \/ Cardinality(rows) > 1 THEN Result(TRUE, NullRow)
    ELSE IF rows = {} THEN Result(FALSE, NullRow)
    ELSE Result(FALSE, CHOOSE r \in rows : TRUE)

\* .single(): anything but one row is an error
single(rows, fault) ==
    IF fault \/ Cardinality(rows) # 1 THEN Result(TRUE, NullRow)
    ELSE Result(FALSE, CHOOSE r \in rows : TRUE)

\* bcrypt.hash(password, 10) and bcrypt.compare(password, hash) on strings
Hash(password) == <<"bcrypt", password>>
\* a comparison that takes any password
CompareAny(password, hash) == TRUE
Compare(password, hash) == hash = Hash(password)

\* the rows with is_active = true
ActiveRows(rows) == {r \in rows : r.is_active}

\* the sweep with .eq in place of .neq
SweepOthersEq(rows, id) ==
    {IF r.id = id THEN [r EXCEPT !.is_active = FALSE] ELSE r : r \in rows}

\* .update({ is_active: false }).neq("id", id) applied to the rows
SweepOthers(rows, id) ==
    {IF r.id # id THEN [r EXCEPT !.is_active = FALSE] ELSE r : r \in rows}

\* an update without its .eq filter: it sets the flag of every row
SetActiveAll(rows, id, v) == {[r EXCEPT !.is_active = v] : r \in rows}

\* an update that flips the flag of the row in place of setting it
SetActiveFlip(rows, id, v) ==
    {IF r.id = id THEN [r EXCEPT !.is_active = ~r.is_active] ELSE r : r \in rows}

\* .update({ is_active: v }).eq("id", id) applied to the rows
SetActive(rows, id, v) ==
    {IF r.id = id THEN [r EXCEPT !.is_active = v] ELSE r : r \in rows}

\* one storage call in the record of a request
Op(name, ok) == [op |-> name, ok |-> ok]

\* ------------------------------------------------------------------------
\* The access gate
\* ------------------------------------------------------------------------

\* what findAdminByEmail returns for null
NullAdmin == [email |-> Null, isSuperAdmin |-> FALSE]

\* whether findAdminByEmail(email) gets as far as querying admin_users
LooksUp(email) ==
    /\ ~Falsy(email)
    /\ ~(~Falsy(ADMIN_EMAIL) /\ email = ADMIN_EMAIL)

\* every email that is not null taken for an account, admin_users not asked
findAdminByEmailAny(email, fault) ==
    IF Falsy(email) THEN NullAdmin
    ELSE IF ~Falsy(ADMIN_EMAIL) /\ email = ADMIN_EMAIL
        THEN [email |-> email, isSuperAdmin |-> TRUE]
    ELSE [email |-> email, isSuperAdmin |-> FALSE]

findAdminByEmail(email, fault) ==
    IF Falsy(email) THEN NullAdmin
    ELSE IF ~Falsy(ADMIN_EMAIL) /\ email = ADMIN_EMAIL
        THEN [email |-> email, isSuperAdmin |-> TRUE]
    ELSE LET res == maybeSingle({r \in admin_users : r.email = email}, fault)
         IN IF res.error \/ res.data = NullRow THEN NullAdmin
            ELSE [email |-> res.data.email, isSuperAdmin |-> FALSE]

\* the email and identity of a request the gate answered before decoding
Unreached == <<-3>>
UnreachedAdmin == [email |-> Unreached, isSuperAdmin |-> FALSE]

\* what the gate made of a request
Gate(status, next, token, email, admin, ops) ==
    [status |-> status, next |-> next, token |-> token, email |-> email,
     admin |-> admin, ops |-> ops]

\* the token tested before the configuration
requireAdminTokenFirst(authorization, fault) ==
    LET authHeader == IF Falsy(authorization) THEN <<>> ELSE authorization
        token == IF StartsWith(authHeader, Bearer)
                 THEN Slice(authHeader, 7) ELSE authHeader
    IN IF Falsy(token)
       THEN Gate(401, FALSE, token, Unreached, UnreachedAdmin, <<>>)
       ELSE IF Falsy(ADMIN_EMAIL) \/ Falsy(ADMIN_PASSWORD)
       THEN Gate(500, FALSE, token, Unreached, UnreachedAdmin, <<>>)
       ELSE LET email == decodeAdminEmail(token)
                admin == findAdminByEmail(email, fault)
                ops == IF LooksUp(email) THEN <<Op("lookup", ~fault)>> ELSE <<>>
            IN IF admin = NullAdmin
               THEN Gate(401, FALSE, token, email, admin, ops)
               ELSE Gate(200, TRUE, token, email, admin, ops)

\* the configuration taken as missing only when email and password both are
requireAdminBothMissing(authorization, fault) ==
    LET authHeader == IF Falsy(authorization) THEN <<>> ELSE authorization
        token == IF StartsWith(authHeader, Bearer)
                 THEN Slice(authHeader, 7) ELSE authHeader
    IN IF Falsy(ADMIN_EMAIL) /\ Falsy(ADMIN_PASSWORD)
       THEN Gate(500, FALSE, token, Unreached, UnreachedAdmin, <<>>)
       ELSE IF Falsy(token)
       THEN Gate(401, FALSE, token, Unreached, UnreachedAdmin, <<>>)
       ELSE LET email == decodeAdminEmail(token)
                admin == findAdminByEmail(email, fault)
                ops == IF LooksUp(email) THEN <<Op("lookup", ~fault)>> ELSE <<>>
            IN IF admin = NullAdmin
               THEN Gate(401, FALSE, token, email, admin, ops)
               ELSE Gate(200, TRUE, token, email, admin, ops)

requireAdmin(authorization, fault) ==
    LET authHeader == IF Falsy(authorization) THEN <<>> ELSE authorization
        token == IF StartsWith(authHeader, Bearer)
                 THEN Slice(authHeader, 7) ELSE authHeader
    IN IF Falsy(ADMIN_EMAIL) \/ Falsy(ADMIN_PASSWORD)
       THEN Gate(500, FALSE, token, Unreached, UnreachedAdmin, <<>>)
       ELSE IF Falsy(token)
       THEN Gate(401, FALSE, token, Unreached, UnreachedAdmin, <<>>)
       ELSE LET email == decodeAdminEmail(token)
                admin == findAdminByEmail(email, fault)
                ops == IF LooksUp(email) THEN <<Op("lookup", ~fault)>> ELSE <<>>
            IN IF admin = NullAdmin
               THEN Gate(401, FALSE, token, email, admin, ops)
               ELSE Gate(200, TRUE, token, email, admin, ops)

\* the gate without the test of req.isSuperAdmin
requireSuperAdminNoCheck(authorization, fault) == requireAdmin(authorization, fault)

requireSuperAdmin(authorization, fault) ==
    LET g == requireAdmin(authorization, fault)
    IN IF g.next /\ ~g.admin.isSuperAdmin
       THEN [g EXCEPT !.status = 403, !.next = FALSE]
       ELSE g

\* ------------------------------------------------------------------------
\* Requests
\* ------------------------------------------------------------------------

\* the body of an answer that carries an error message, { success: true } or a list
NoBody == [id |-> 0]

\* the record of a request answered after the gate g: its route and
\* parameters, the status and body it got, whether the gate let it through to
\* the handler, the storage calls made for it in order (ok: the call was
\* carried out), and the ids of the banners active when it arrived
Answer(route, req, g, status, ops, body) ==
    [route |-> route, req |-> req, status |-> status, next |-> g.next,
     token |-> g.token, email |-> g.email, admin |-> g.admin,
     ops |-> g.ops \o ops, body |-> body,
     before |-> {r.id : r \in ActiveRows(banners)}]

\* the answer of a request the gate turned away
Refused(route, req, g) == Answer(route, req, g, g.status, <<>>, NoBody)

\* a gate that lets everything through, for routes without one
Open == Gate(200, TRUE, <<>>, Unreached, UnreachedAdmin, <<>>)

\* the admin_users row with the email
RowOf(email) == CHOOSE r \in admin_users : r.email = email

\* POST /api/admin/login
Login(candidate, password, fault) ==
    /\ IF Falsy(ADMIN_EMAIL) \/ Falsy(ADMIN_PASSWORD)
       THEN last' = Answer("login", <<candidate, password>>, Open, 500, <<>>, NoBody)
       ELSE IF candidate = ADMIN_EMAIL /\ password = ADMIN_PASSWORD
       THEN last' = Answer("login", <<candidate, password>>, Open, 200, <<>>,
                           [token |-> encodeAdminToken(candidate),
                            email |-> candidate, isSuperAdmin |-> TRUE])
       ELSE LET res == maybeSingle({r \in admin_users : r.email = candidate}, fault)
                ops == <<Op("lookup", ~fault)>>
                valid == Compare(IF Falsy(password) THEN <<>> ELSE password,
                                 res.data.password_hash)
            IN IF res.error \/ res.data = NullRow
               THEN last' = Answer("login", <<candidate, password>>, Open, 401, ops, NoBody)
               ELSE IF ~valid
               THEN last' = Answer("login", <<candidate, password>>, Open, 401, ops, NoBody)
               ELSE last' = Answer("login", <<candidate, password>>, Open, 200, ops,
                                   [token |-> encodeAdminToken(res.data.email),
                                    email |-> res.data.email, isSuperAdmin |-> FALSE])
    /\ issued' = IF last'.status # 200 THEN issued
                 ELSE issued \cup {[token |-> last'.body.token,
                                    isSuperAdmin |-> last'.body.isSuperAdmin,
                                    row |-> IF last'.body.isSuperAdmin THEN 0
                                            ELSE RowOf(last'.body.email).id]}
    /\ UNCHANGED <<tables, config, codec, inflight>>

\* GET /api/admin/banners
GetBanners(authorization, F) ==
    LET g == requireAdmin(authorization, "lookup" \in F)
    IN /\ IF ~g.next THEN last' = Refused("banners.list", <<>>, g)
          ELSE IF "select" \in F
          THEN last' = Answer("banners.list", <<>>, g, 500, <<Op("select", FALSE)>>, NoBody)
          ELSE last' = Answer("banners.list", <<>>, g, 200, <<Op("select", TRUE)>>, NoBody)
       /\ UNCHANGED <<tables, config, codec, issued, inflight>>

\* POST /api/admin/banners; fields: product and message are there
CreateBanner(authorization, fields, is_active, F) ==
    LET g == requireAdmin(authorization, "lookup" \in F)
        req == <<fields, is_active>>
        data == [id |-> nextBannerId, is_active |-> is_active]
        inserted == banners \cup {data}
    IN /\ (g.next /\ fields) => nextBannerId <= MaxBanners
       /\ IF ~g.next
          THEN /\ last' = Refused("banners.create", req, g)
               /\ UNCHANGED <<banners, nextBannerId>>
          ELSE IF ~fields
          THEN /\ last' = Answer("banners.create", req, g, 400, <<>>, NoBody)
               /\ UNCHANGED <<banners, nextBannerId>>
          ELSE IF "insert" \in F
          THEN /\ last' = Answer("banners.create", req, g, 500,
                                 <<Op("insert", FALSE)>>, NoBody)
               /\ UNCHANGED <<banners, nextBannerId>>
          ELSE /\ nextBannerId' = nextBannerId + 1
               /\ IF is_active
                  THEN /\ banners' = IF "sweep" \in F THEN inserted
                                     ELSE SweepOthers(inserted, data.id)
                       /\ last' = Answer("banners.create", req, g, 200,
                                         <<Op("insert", TRUE), Op("sweep", "sweep" \notin F)>>,
                                         data)
                  ELSE /\ banners' = inserted
                       /\ last' = Answer("banners.create", req, g, 200,
                                         <<Op("insert", TRUE)>>, data)
       /\ UNCHANGED <<admin_users, nextUserId, config, codec, issued, inflight>>

\* what payload.is_active of PUT /api/admin/banners/:id can be, the payload
\* having some other field when it is absent
Payloads == {"true", "false", "absent"}

\* PUT /api/admin/banners/:id
UpdateBanner(authorization, id, is_active, F) ==
    LET g == requireAdmin(authorization, "lookup" \in F)
        req == <<id, is_active>>
        sweeps == is_active = "true"
        sweepOk == "sweep" \notin F /\ id # BadId
        swept == IF sweeps /\ sweepOk THEN SweepOthers(banners, id) ELSE banners
        updateOk == "update" \notin F /\ id # BadId
        updated == IF ~updateOk \/ is_active = "absent" THEN swept
                   ELSE SetActive(swept, id, is_active = "true")
        res == single({r \in updated : r.id = id}, ~updateOk)
        ops == (IF sweeps THEN <<Op("sweep", sweepOk)>> ELSE <<>>)
               \o <<Op("update", updateOk)>>
    IN /\ IF ~g.next
          THEN /\ last' = Refused("banners.update", req, g)
               /\ UNCHANGED banners
          ELSE /\ banners' = updated
               /\ last' = Answer("banners.update", req, g,
                                 IF res.error THEN 500 ELSE 200, ops,
                                 IF res.error THEN NoBody ELSE res.data)
       /\ UNCHANGED <<admin_users, nextUserId, nextBannerId, config, codec, issued, inflight>>

\* an activate that updates its target first and sweeps when that succeeded
ActivateBannerUpdateFirst(authorization, id, F) ==
    LET g == requireAdmin(authorization, "lookup" \in F)
        updateOk == "update" \notin F /\ id # BadId
        updated == IF updateOk THEN SetActive(banners, id, TRUE) ELSE banners
        res == single({r \in updated : r.id = id}, ~updateOk)
        sweepOk == "sweep" \notin F
        swept == IF ~res.error /\ sweepOk THEN SweepOthers(updated, id) ELSE updated
        ops == IF res.error THEN <<Op("update", updateOk)>>
               ELSE <<Op("update", updateOk), Op("sweep", sweepOk)>>
    IN /\ IF ~g.next
          THEN /\ last' = Refused("banners.activate", <<id>>, g)
               /\ UNCHANGED banners
          ELSE /\ banners' = swept
               /\ last' = Answer("banners.activate", <<id>>, g,
                                 IF res.error THEN 500 ELSE 200, ops,
                                 IF res.error THEN NoBody ELSE res.data)
       /\ UNCHANGED <<admin_users, nextUserId, nextBannerId, config, codec, issued, inflight>>

\* an activate that answers 500 when its sweep or its update has failed
ActivateBannerSweepChecked(authorization, id, F) ==
    LET g == requireAdmin(authorization, "lookup" \in F)
        sweepOk == "sweep" \notin F /\ id # BadId
        swept == IF sweepOk THEN SweepOthers(banners, id) ELSE banners
        updateOk == "update" \notin F /\ id # BadId
        updated == IF updateOk THEN SetActive(swept, id, TRUE) ELSE swept
        res == single({r \in updated : r.id = id}, ~updateOk \/ ~sweepOk)
        ops == <<Op("sweep", sweepOk), Op("update", updateOk)>>
    IN /\ IF ~g.next
          THEN /\ last' = Refused("banners.activate", <<id>>, g)
               /\ UNCHANGED banners
          ELSE /\ banners' = updated
               /\ last' = Answer("banners.activate", <<id>>, g,
                                 IF res.error THEN 500 ELSE 200, ops,
                                 IF res.error THEN NoBody ELSE res.data)
       /\ UNCHANGED <<admin_users, nextUserId, nextBannerId, config, codec, issued, inflight>>

\* POST /api/admin/banners/:id/activate
ActivateBanner(authorization, id, F) ==
    LET g == requireAdmin(authorization, "lookup" \in F)
        sweepOk == "sweep" \notin F /\ id # BadId
        swept == IF sweepOk THEN SweepOthers(banners, id) ELSE banners
        updateOk == "update" \notin F /\ id # BadId
        updated == IF updateOk THEN SetActive(swept, id, TRUE) ELSE swept
        res == single({r \in updated : r.id = id}, ~updateOk)
        ops == <<Op("sweep", sweepOk), Op("update", updateOk)>>
    IN /\ IF ~g.next
          THEN /\ last' = Refused("banners.activate", <<id>>, g)
               /\ UNCHANGED banners
          ELSE /\ banners' = updated
               /\ last' = Answer("banners.activate", <<id>>, g,
                                 IF res.error THEN 500 ELSE 200, ops,
                                 IF res.error THEN NoBody ELSE res.data)
       /\ UNCHANGED <<admin_users, nextUserId, nextBannerId, config, codec, issued, inflight>>

\* POST /api/admin/banners/:id/deactivate
DeactivateBanner(authorization, id, F) ==
    LET g == requireAdmin(authorization, "lookup" \in F)
        updateOk == "update" \notin F /\ id # BadId
        updated == IF updateOk THEN SetActive(banners, id, FALSE) ELSE banners
        res == single({r \in updated : r.id = id}, ~updateOk)
    IN /\ IF ~g.next
          THEN /\ last' = Refused("banners.deactivate", <<id>>, g)
               /\ UNCHANGED banners
          ELSE /\ banners' = updated
               /\ last' = Answer("banners.deactivate", <<id>>, g,
                                 IF res.error THEN 500 ELSE 200,
                                 <<Op("update", updateOk)>>,
                                 IF res.error THEN NoBody ELSE res.data)
       /\ UNCHANGED <<admin_users, nextUserId, nextBannerId, config, codec, issued, inflight>>

\* DELETE /api/admin/banners/:id
DeleteBanner(authorization, id, F) ==
    LET g == requireAdmin(authorization, "lookup" \in F)
        deleteOk == "delete" \notin F /\ id # BadId
    IN /\ IF ~g.next
          THEN /\ last' = Refused("banners.delete", <<id>>, g)
               /\ UNCHANGED banners
          ELSE /\ banners' = IF deleteOk THEN {r \in banners : r.id # id} ELSE banners
               /\ last' = Answer("banners.delete", <<id>>, g,
                                 IF deleteOk THEN 200 ELSE 500,
                                 <<Op("delete", deleteOk)>>, NoBody)
       /\ UNCHANGED <<admin_users, nextUserId, nextBannerId, config, codec, issued, inflight>>

\* GET /api/admin/users
GetUsers(authorization, F) ==
    LET g == requireSuperAdmin(authorization, "lookup" \in F)
    IN /\ IF ~g.next THEN last' = Refused("users.list", <<>>, g)
          ELSE IF "select" \in F
          THEN last' = Answer("users.list", <<>>, g, 500, <<Op("select", FALSE)>>, NoBody)
          ELSE last' = Answer("users.list", <<>>, g, 200, <<Op("select", TRUE)>>, NoBody)
       /\ UNCHANGED <<tables, config, codec, issued, inflight>>

\* the unique constraint on admin_users.email
EmailTaken(email) == \E r \in admin_users : r.email = email

\* a create that rejects no email
RejectsPrimaryNever(email) == FALSE

\* whether POST /api/admin/users rejects the email as the primary admin's
RejectsPrimary(email) == ~Falsy(ADMIN_EMAIL) /\ email = ADMIN_EMAIL

\* POST /api/admin/users
CreateUser(authorization, email, password, F) ==
    LET g == requireSuperAdmin(authorization, "lookup" \in F)
        req == <<email, password>>
        insertOk == "insert" \notin F /\ ~EmailTaken(email)
        data == [id |-> nextUserId, email |-> email, password_hash |-> Hash(password)]
        inserts == /\ g.next
                   /\ ~(Falsy(email) \/ Falsy(password))
                   /\ ~RejectsPrimary(email)
                   /\ insertOk
    IN /\ inserts => nextUserId <= MaxUsers
       /\ IF ~g.next
          THEN last' = Refused("users.create", req, g)
          ELSE IF Falsy(email) \/ Falsy(password)
          THEN last' = Answer("users.create", req, g, 400, <<>>, NoBody)
          ELSE IF RejectsPrimary(email)
          THEN last' = Answer("users.create", req, g, 400, <<>>, NoBody)
          ELSE IF ~insertOk
          THEN last' = Answer("users.create", req, g, 500, <<Op("insert", FALSE)>>, NoBody)
          ELSE last' = Answer("users.create", req, g, 200, <<Op("insert", TRUE)>>,
                              [id |-> data.id, email |-> data.email])
       /\ admin_users' = IF inserts THEN admin_users \cup {data} ELSE admin_users
       /\ nextUserId' = IF inserts THEN nextUserId + 1 ELSE nextUserId
       /\ UNCHANGED <<banners, nextBannerId, config, codec, issued, inflight>>

\* DELETE /api/admin/users/:id
DeleteUser(authorization, id, F) ==
    LET g == requireSuperAdmin(authorization, "lookup" \in F)
        deleteOk == "delete" \notin F /\ id # BadId
    IN /\ IF ~g.next
          THEN /\ last' = Refused("users.delete", <<id>>, g)
               /\ UNCHANGED admin_users
          ELSE /\ admin_users' = IF deleteOk THEN {r \in admin_users : r.id # id}
                                 ELSE admin_users
               /\ last' = Answer("users.delete", <<id>>, g,
                                 IF deleteOk THEN 200 ELSE 500,
                                 <<Op("delete", deleteOk)>>, NoBody)
       /\ UNCHANGED <<nextUserId, banners, nextBannerId, config, codec, issued, inflight>>

\* ------------------------------------------------------------------------
\* The server
\* ------------------------------------------------------------------------

\* before any request
NoRequest ==
    [route |-> "none", req |-> <<>>, status |-> 0, next |-> FALSE, token |-> <<>>,
     email |-> Unreached, admin |-> UnreachedAdmin, ops |-> <<>>, body |-> NoBody,
     before |-> {}]

\* no codec run
CodecIdle ==
    /\ cEmail = <<>>
    /\ cToken = <<>>
    /\ cOut = Unreached
    /\ cPc = "idle"

\* the clients whose banner requests run step by step
Clients == {1, 2}

\* a client with no request in flight
Idle == [route |-> "none", pc |-> "idle", id |-> 0, is_active |-> "absent",
         status |-> 0, ops |-> <<>>]

\* the process starts with the environment it is given and empty tables
Init ==
    /\ ADMIN_EMAIL \in {Undefined, <<>>, PrimaryEmail}
    /\ ADMIN_PASSWORD \in {Undefined, <<>>, PasswordP}
    /\ admin_users = {}
    /\ banners = {}
    /\ nextUserId = 1
    /\ nextBannerId = 1
    /\ last = NoRequest
    /\ CodecIdle
    /\ issued = {}
    /\ inflight = [c \in Clients |-> Idle]

\* the storage calls of a request that can fail in transport: the lookup of
\* the gate when the gate makes one, those of the handler, calls, when the
\* gate lets the request through
AdminFaults(h, calls) ==
    LET lookups == IF requireAdmin(h, FALSE).ops = <<>> THEN {{}}
                   ELSE {{}, {"lookup"}}
    IN UNION {IF requireAdmin(h, L # {}).next THEN {L \cup C : C \in SUBSET calls}
              ELSE {L} : L \in lookups}

SuperFaults(h, calls) ==
    LET lookups == IF requireSuperAdmin(h, FALSE).ops = <<>> THEN {{}}
                   ELSE {{}, {"lookup"}}
    IN UNION {IF requireSuperAdmin(h, L # {}).next THEN {L \cup C : C \in SUBSET calls}
              ELSE {L} : L \in lookups}

LoginRequest ==
    \E candidate \in Emails \cup {Undefined}, password \in Passwords \cup {Undefined},
       fault \in BOOLEAN :
        Login(candidate, password, fault)

GetBannersRequest ==
    \E h \in Headers : \E F \in AdminFaults(h, {"select"}) : GetBanners(h, F)

CreateBannerRequest ==
    \E h \in BannerHeaders, fields \in BOOLEAN, is_active \in BOOLEAN :
        \E F \in AdminFaults(h, {"insert", "sweep"}) :
            CreateBanner(h, fields, is_active, F)

UpdateBannerRequest ==
    \E h \in BannerHeaders, id \in BannerIds, is_active \in Payloads :
        \E F \in AdminFaults(h, {"sweep", "update"}) :
            UpdateBanner(h, id, is_active, F)

ActivateBannerRequest ==
    \E h \in BannerHeaders, id \in BannerIds :
        \E F \in AdminFaults(h, {"sweep", "update"}) :
            ActivateBanner(h, id, F)

DeactivateBannerRequest ==
    \E h \in BannerHeaders, id \in BannerIds :
        \E F \in AdminFaults(h, {"update"}) :
            DeactivateBanner(h, id, F)

DeleteBannerRequest ==
    \E h \in BannerHeaders, id \in BannerIds :
        \E F \in AdminFaults(h, {"delete"}) :
            DeleteBanner(h, id, F)

GetUsersRequest ==
    \E h \in Headers : \E F \in SuperFaults(h, {"select"}) : GetUsers(h, F)

CreateUserRequest ==
    \E h \in Headers, email \in Emails \cup {Undefined},
       password \in Passwords \cup {Undefined} :
        \E F \in SuperFaults(h, {"insert"}) :
            CreateUser(h, email, password, F)

DeleteUserRequest ==
    \E h \in Headers, id \in UserIds :
        \E F \in SuperFaults(h, {"delete"}) :
            DeleteUser(h, id, F)

\* the requests to the gate, the login and the admin accounts
Next ==
    \/ LoginRequest
    \/ GetBannersRequest
    \/ GetUsersRequest
    \/ CreateUserRequest
    \/ DeleteUserRequest

Spec == Init /\ [][Next]_vars

\* the requests to the banner routes, one at a time
NextBanners ==
    \/ GetBannersRequest
    \/ CreateBannerRequest
    \/ UpdateBannerRequest
    \/ ActivateBannerRequest
    \/ DeactivateBannerRequest
    \/ DeleteBannerRequest

SpecBanners == Init /\ [][NextBanners]_vars

\* ------------------------------------------------------------------------
\* The sweeping banner routes step by step, for clients served at once
\* ------------------------------------------------------------------------

\* the storage call a handler awaits first: create its insert (line 422),
\* update its sweep when the payload sets is_active true (line 450) and its
\* update otherwise, activate its sweep (line 470)
FirstCallWriteFirst(route, is_active) ==
    IF route = "banners.create" THEN "insert" ELSE "update"
FirstCall(route, is_active) ==
    IF route = "banners.create" THEN "insert"
    ELSE IF route = "banners.update" /\ is_active # "true" THEN "update"
    ELSE "sweep"

\* the request client c has in flight becomes r
Becomes(c, r) == inflight' = [inflight EXCEPT ![c] = r]

\* the inserts awaited by the clients
PendingInserts == {c \in Clients : inflight[c].pc = "insert"}

\* a request of client c, g the outcome of the gate for it, passes the
\* checks of its handler, up to the first storage call the handler awaits;
\* the handler alone reads the id and the payload
Arrive(c, route, g, id, is_active, fields) ==
    LET r == [route |-> route, pc |-> "done", id |-> 0, is_active |-> "absent",
              status |-> g.status, ops |-> <<>>]
    IN /\ inflight[c].pc \in {"idle", "done"}
       /\ (route = "banners.create" /\ g.next /\ fields)
          => nextBannerId + Cardinality(PendingInserts) <= MaxBanners
       /\ IF ~g.next THEN Becomes(c, r)
          ELSE IF route = "banners.create" /\ ~fields
          THEN Becomes(c, [r EXCEPT !.status = 400])
          ELSE Becomes(c, [r EXCEPT !.pc = FirstCall(route, is_active), !.status = 0,
                                    !.id = id, !.is_active = is_active])
       /\ UNCHANGED <<tables, config, codec, issued, last>>

\* the insert of a create returns
InsertReturns(c, fault) ==
    LET r == inflight[c]
        data == [id |-> nextBannerId, is_active |-> r.is_active = "true"]
    IN /\ r.pc = "insert"
       /\ IF fault
          THEN /\ Becomes(c, [r EXCEPT !.pc = "done", !.status = 500,
                                       !.ops = @ \o <<Op("insert", FALSE)>>])
               /\ UNCHANGED <<banners, nextBannerId>>
          ELSE /\ banners' = banners \cup {data}
               /\ nextBannerId' = nextBannerId + 1
               /\ Becomes(c, [r EXCEPT !.id = data.id,
                                       !.pc = IF data.is_active THEN "sweep" ELSE "done",
                                       !.status = IF data.is_active THEN 0 ELSE 200,
                                       !.ops = @ \o <<Op("insert", TRUE)>>])
       /\ UNCHANGED <<admin_users, nextUserId, config, codec, issued, last>>

\* the sweep of a request returns; its result is not looked at
SweepReturns(c, fault) ==
    LET r == inflight[c]
        sweepOk == ~fault /\ r.id # BadId
        created == r.route = "banners.create"
    IN /\ r.pc = "sweep"
       /\ banners' = IF sweepOk THEN SweepOthers(banners, r.id) ELSE banners
       /\ Becomes(c, [r EXCEPT !.pc = IF created THEN "done" ELSE "update",
                               !.status = IF created THEN 200 ELSE 0,
                               !.ops = @ \o <<Op("sweep", sweepOk)>>])
       /\ UNCHANGED <<admin_users, nextUserId, nextBannerId, config, codec, issued, last>>

\* the update of the target row of an update or an activate returns
UpdateReturns(c, fault) ==
    LET r == inflight[c]
        updateOk == ~fault /\ r.id # BadId
        sets == r.route = "banners.activate" \/ r.is_active # "absent"
        v == r.route = "banners.activate" \/ r.is_active = "true"
        updated == IF updateOk /\ sets THEN SetActive(banners, r.id, v) ELSE banners
        res == single({row \in updated : row.id = r.id}, ~updateOk)
    IN /\ r.pc = "update"
       /\ banners' = updated
       /\ Becomes(c, [r EXCEPT !.pc = "done",
                               !.status = IF res.error THEN 500 ELSE 200,
                               !.ops = @ \o <<Op("update", updateOk)>>])
       /\ UNCHANGED <<admin_users, nextUserId, nextBannerId, config, codec, issued, last>>

\* the headers of these runs: none, and the primary admin's token
StepHeaders == {Undefined, encodeAdminToken(PrimaryEmail)}

\* the ids of these runs are well-formed
StepIds == 1..MaxBanners

ArriveCreate ==
    \E h \in StepHeaders :
        LET g == requireAdmin(h, FALSE)
        IN \E c \in Clients, fields \in BOOLEAN, is_active \in {"true", "false"} :
               Arrive(c, "banners.create", g, 0, is_active, fields)

ArriveUpdate ==
    \E h \in StepHeaders :
        LET g == requireAdmin(h, FALSE)
        IN \E c \in Clients, id \in StepIds, is_active \in Payloads :
               Arrive(c, "banners.update", g, id, is_active, TRUE)

ArriveActivate ==
    \E h \in StepHeaders :
        LET g == requireAdmin(h, FALSE)
        IN \E c \in Clients, id \in StepIds :
               Arrive(c, "banners.activate", g, id, "true", TRUE)

InsertStep == \E c \in Clients, fault \in BOOLEAN : InsertReturns(c, fault)
SweepStep == \E c \in Clients, fault \in BOOLEAN : SweepReturns(c, fault)
UpdateStep == \E c \in Clients, fault \in BOOLEAN : UpdateReturns(c, fault)

\* the storage calls of the clients' requests return in any order
NextSteps ==
    \/ ArriveCreate
    \/ ArriveUpdate
    \/ ArriveActivate
    \/ InsertStep
    \/ SweepStep
    \/ UpdateStep

SpecSteps == Init /\ [][NextSteps]_vars

\* ------------------------------------------------------------------------
\* Runs of the token codec
\* ------------------------------------------------------------------------

\* "*", "=" and "x": no base64 character, the padding, a base64 character
TamperChars == {42, 61, 120}

\* a codec run starts from an email; the server is configured and idle
InitCodec ==
    /\ ADMIN_EMAIL = PrimaryEmail
    /\ ADMIN_PASSWORD = PasswordP
    /\ admin_users = {}
    /\ banners = {}
    /\ nextUserId = 1
    /\ nextBannerId = 1
    /\ last = NoRequest
    /\ cEmail \in StringsUpTo(MaxLen)
    /\ cToken = <<>>
    /\ cOut = Unreached
    /\ cPc = "start"
    /\ issued = {}
    /\ inflight = [c \in Clients |-> Idle]

\* the token of the email is issued
CodecEncode ==
    /\ cPc = "start"
    /\ cToken' = encodeAdminToken(cEmail)
    /\ cPc' = "encoded"
    /\ UNCHANGED <<cEmail, cOut, tables, config, last, issued, inflight>>

\* the token is presented as issued
CodecDecode ==
    /\ cPc = "encoded"
    /\ cOut' = decodeAdminEmail(cToken)
    /\ cPc' = "decoded"
    /\ UNCHANGED <<cEmail, cToken, tables, config, last, issued, inflight>>

\* the token is cut short or one of its characters is replaced
CodecTamper ==
    /\ cPc = "encoded"
    /\ \E k \in 1..Len(cToken) :
        \/ cToken' = SubSeq(cToken, 1, k - 1)
        \/ \E c \in TamperChars : cToken' = [cToken EXCEPT ![k] = c]
    /\ cPc' = "tampered"
    /\ UNCHANGED <<cEmail, cOut, tables, config, last, issued, inflight>>

\* the tampered token is presented
CodecDecodeTampered ==
    /\ cPc = "tampered"
    /\ cOut' = decodeAdminEmail(cToken)
    /\ cPc' = "decodedTampered"
    /\ UNCHANGED <<cEmail, cToken, tables, config, last, issued, inflight>>

\* the tampered token is sent as the Authorization header of a guarded route
CodecPresent ==
    /\ cPc = "decodedTampered"
    /\ last = NoRequest
    /\ GetBanners(cToken, {})

NextCodec ==
    \/ CodecEncode
    \/ CodecDecode
    \/ CodecTamper
    \/ CodecDecodeTampered
    \/ CodecPresent

SpecCodec == InitCodec /\ [][NextCodec]_vars

\* ------------------------------------------------------------------------
\* Properties of the banner routes
\* ------------------------------------------------------------------------

AtMostOneActive(rows) == Cardinality(ActiveRows(rows)) <= 1

\* every storage call made for the request was carried out: none failed in
\* transport, none was turned down for a malformed id
NoStorageError(ans) == \A i \in 1..Len(ans.ops) : ans.ops[i].ok

\* the routes that write to banners
BannerWrites ==
    {"banners.create", "banners.update", "banners.activate",
     "banners.deactivate", "banners.delete"}

\* C1: banner requests running one at a time, each to completion: a request
\* to create, update, activate, deactivate or delete whose storage calls all
\* succeed, made when at most one banner row is active, leaves at most one
\* banner row active.
C1_SingleActivePreserved ==
    [][(/\ last'.route \in BannerWrites
        /\ NoStorageError(last')
        /\ AtMostOneActive(banners)) => AtMostOneActive(banners')]_vars

\* a create with is_active true has swept after another banner was there
C1_Witness ==
    /\ last.route = "banners.create"
    /\ last.status = 200
    /\ last.ops = <<Op("insert", TRUE), Op("sweep", TRUE)>>
    /\ Cardinality(banners) = 2
    /\ ActiveRows(banners) = {last.body}

Configured == ~Falsy(ADMIN_EMAIL) /\ ~Falsy(ADMIN_PASSWORD)

\* the routes behind requireSuperAdmin and behind either gate
SuperRoutes == {"users.list", "users.create", "users.delete"}
GuardedRoutes == SuperRoutes \cup BannerWrites \cup {"banners.list"}

\* the gate resolved the token of the request to an identity
Resolved(ans) == ans.admin # UnreachedAdmin /\ ans.admin # NullAdmin

\* C3: on the three /api/admin/users routes, a request whose token the gate
\* resolves to the primary admin goes on to its handler, and one whose token
\* it resolves to a secondary admin is answered 403 and its handler does not
\* run: no storage call but the gate's lookup is made for it.
C3_SuperAdminOnly ==
    last.route \in SuperRoutes =>
        /\ (Resolved(last) /\ last.admin.isSuperAdmin) => last.next
        /\ (Resolved(last) /\ ~last.admin.isSuperAdmin) =>
              /\ last.status = 403
              /\ ~last.next
              /\ last.ops = <<Op("lookup", TRUE)>>
              /\ last.body = NoBody

\* a secondary admin's delete of an account was answered 403
C3_Witness ==
    /\ last.route = "users.delete"
    /\ last.admin = [email |-> SecondaryEmail, isSuperAdmin |-> FALSE]
    /\ last.status = 403
    /\ admin_users # {}

\* the decoded email of the token is neither the configured primary admin
\* email nor the email of a row of admin_users
UnknownToken(token) ==
    LET email == decodeAdminEmail(token)
    IN /\ ~(~Falsy(ADMIN_EMAIL) /\ email = ADMIN_EMAIL)
       /\ \A r \in admin_users : r.email # email

\* C4 as stated: every request to a guarded route with a token whose decoded
\* email is neither the primary admin's nor that of an admin_users row is
\* answered 401 and its handler does not run.
C4_UnknownTokenIs401 ==
    (last.route \in GuardedRoutes /\ UnknownToken(last.token)) =>
        last.status = 401 /\ ~last.next

\* C4 amended: such a request never gets to its handler; it is answered 401
\* when email and password of the primary admin are configured, and 500 when
\* one of them is missing.
C4_UnknownTokenRefused ==
    (last.route \in GuardedRoutes /\ UnknownToken(last.token)) =>
        /\ ~last.next
        /\ last.body = NoBody
        /\ Configured => last.status = 401
        /\ ~Configured => last.status = 500

\* the token of an email without account was answered 401, an account of
\* another admin being there or not
C4_Witness ==
    /\ last.route \in GuardedRoutes
    /\ Configured
    /\ last.token = encodeAdminToken(SecondaryEmail)
    /\ last.email = SecondaryEmail
    /\ UnknownToken(last.token)
    /\ last.status = 401
    /\ nextUserId > 1

\* C5 as stated: a request to a guarded route without Authorization header
\* is answered 401, whatever the configuration.
C5_NoHeaderIs401 ==
    (last.route \in GuardedRoutes /\ last.token = <<>>) => last.status = 401

\* C5 amended: a request to a guarded route without Authorization header
\* never gets to its handler; it is answered 401 when the primary admin is
\* configured, and 500 when email or password is missing.
C5_NoHeaderRefused ==
    (last.route \in GuardedRoutes /\ last.token = <<>>) =>
        /\ ~last.next
        /\ last.ops = <<>>
        /\ Configured => last.status = 401
        /\ ~Configured => last.status = 500

\* a request without header was answered 401 by the configured server
C5_Witness ==
    /\ last.route \in GuardedRoutes
    /\ last.token = <<>>
    /\ Configured
    /\ last.status = 401

\* C6: email or password of the primary admin missing: every request to a
\* guarded route and every login is answered 500, whatever it carries; none
\* gets to a handler, has a storage call made or a token issued, and the
\* tables stay empty.
C6_Misconfigured500 ==
    (~Configured /\ last.route # "none") =>
        /\ last.status = 500
        /\ last.route \in GuardedRoutes => ~last.next
        /\ last.ops = <<>>
        /\ last.body = NoBody
        /\ admin_users = {}

\* the primary admin's own token was answered 500, the password missing
C6_Witness ==
    /\ ADMIN_EMAIL = PrimaryEmail
    /\ Falsy(ADMIN_PASSWORD)
    /\ last.route = "users.create"
    /\ last.token = encodeAdminToken(PrimaryEmail)
    /\ last.status = 500

\* the login was made with the configured primary pair
PrimaryPair(ans) == ans.req[1] = ADMIN_EMAIL /\ ans.req[2] = ADMIN_PASSWORD

\* admin_users has a row with the email of the login, and its stored hash is
\* the hash of the password of the login
SecondaryPair(ans) ==
    \E r \in admin_users :
        /\ r.email = ans.req[1]
        /\ ~Falsy(ans.req[2])
        /\ r.password_hash = Hash(ans.req[2])

\* the login succeeded, as super admin or not, with the token of the email
LoggedInAs(ans, super) ==
    /\ ans.status = 200
    /\ ans.body = [token |-> encodeAdminToken(ans.req[1]), email |-> ans.req[1],
                   isSuperAdmin |-> super]

\* the login was answered 401 and got no token
LoginRefused(ans) == ans.status = 401 /\ ans.body = NoBody

C8_NoPrimaryRow ==
    /\ \A r \in admin_users : ~(~Falsy(ADMIN_EMAIL) /\ r.email = ADMIN_EMAIL)
    /\ (/\ last.route = "users.create"
        /\ ~Falsy(ADMIN_EMAIL)
        /\ last.req[1] = ADMIN_EMAIL)
       => /\ last.status # 200
          /\ \A i \in 1..Len(last.ops) : last.ops[i].op # "insert"

\* the primary admin asked for an account with the own email and got 400,
\* an account having been created before
C8_Witness ==
    /\ last.route = "users.create"
    /\ last.req[1] = ADMIN_EMAIL
    /\ last.next
    /\ last.status = 400
    /\ admin_users # {}

\* ------------------------------------------------------------------------
\* Properties of the token codec
\* ------------------------------------------------------------------------

\* C9: decoding the token issued for an email gives the email back.  (That
\* the same email gives the same token is how encodeAdminToken is written:
\* it reads the email and ADMIN_TOKEN and nothing else.)
C9_RoundTrip ==
    cPc = "decoded" =>
        /\ cToken = encodeAdminToken(cEmail)
        /\ cOut = cEmail

\* an email of MaxLen characters, one of them outside ASCII, came back
C9_Witness ==
    /\ cPc = "decoded"
    /\ Len(cEmail) = MaxLen
    /\ \E i \in 1..Len(cEmail) : cEmail[i] > 127
    /\ cOut = cEmail

\* the token begins with the secret and the "."
HasPrefix(token) == StartsWith(token, ADMIN_TOKEN \o <<Dot>>)

\* C10: decodeAdminEmail returns a value for every token, null or a string,
\* and null for every token that does not begin with the secret and the ".";
\* the gate makes no lookup for such a token and answers 401.
C10_MalformedIsNull ==
    /\ cPc \in {"decoded", "decodedTampered"} =>
          /\ cOut = Null \/ \A i \in 1..Len(cOut) : cOut[i] \in 0..1114111
          /\ ~HasPrefix(cToken) => cOut = Null
    /\ (last.route = "banners.list" /\ ~HasPrefix(cToken)) =>
          /\ last.token = cToken
          /\ last.email \in {Null, Unreached}
          /\ last.ops = <<>>
          /\ last.status = 401
          /\ ~last.next

\* a token with another character in place of the "." was decoded to null
\* and answered 401
C10_Witness ==
    /\ cPc = "decodedTampered"
    /\ StartsWith(cToken, ADMIN_TOKEN)
    /\ Len(cToken) > Len(ADMIN_TOKEN) + 1
    /\ ~HasPrefix(cToken)
    /\ cOut = Null
    /\ last.status = 401

\* ------------------------------------------------------------------------
\* Properties of the sweep: idempotence, frame, failures, order
\* ------------------------------------------------------------------------

\* the activate requests the gate let through to the handler
Activates(ans) == ans.route = "banners.activate" /\ ans.next

\* C11: an activate of the banner that is already the only active one, its
\* storage calls carried out, answers 200 with that row and leaves every
\* is_active flag as it was; and an activate that repeats the activate just
\* answered (same id, same outcome of each storage call) leaves the banners
\* as the first one left them.
C11_ActivateIdempotent ==
    [][Activates(last') =>
        /\ (/\ NoStorageError(last')
            /\ \E r \in banners : r.id = last'.req[1]
            /\ last'.before = {last'.req[1]})
           => /\ last'.status = 200
              /\ last'.body \in banners
              /\ last'.body.id = last'.req[1]
              /\ banners' = banners
        /\ (/\ Activates(last)
            /\ last'.req = last.req
            /\ last'.ops = last.ops)
           => banners' = banners]_vars

\* the only active banner of two has been activated again
C11_Witness ==
    /\ Activates(last)
    /\ NoStorageError(last)
    /\ last.status = 200
    /\ last.before = {last.req[1]}
    /\ Cardinality(banners) = 2
    /\ ActiveRows(banners) = {last.body}

\* C12: a deactivate request leaves every banner row but its target as it
\* was and turns no row active; when it is answered 200 its target is
\* inactive, so that deactivating the only active banner leaves none active.
C12_DeactivateOnlyTarget ==
    [][last'.route = "banners.deactivate" =>
        /\ \A r \in banners : r.id # last'.req[1] => r \in banners'
        /\ \A r \in banners' : r.id # last'.req[1] => r \in banners
        /\ {r.id : r \in banners'} = {r.id : r \in banners}
        /\ ActiveRows(banners') \subseteq ActiveRows(banners)
        /\ last'.status = 200
           => /\ last'.body \in banners'
              /\ last'.body = [id |-> last'.req[1], is_active |-> FALSE]
        /\ (last'.status = 200 /\ last'.before = {last'.req[1]})
           => ActiveRows(banners') = {}]_vars

\* the only active banner of two has been deactivated
C12_Witness ==
    /\ last.route = "banners.deactivate"
    /\ last.status = 200
    /\ last.before = {last.req[1]}
    /\ Cardinality(banners) = 2
    /\ ActiveRows(banners) = {}

\* the request is one of the three that sweep and has reached its sweep
Triggers(ans) ==
    /\ ans.next
    /\ \/ ans.route = "banners.create" /\ ans.req[2]
       \/ ans.route = "banners.update" /\ ans.req[2] = "true"
       \/ ans.route = "banners.activate"
    /\ \E i \in 1..Len(ans.ops) : ans.ops[i].op = "sweep"

\* the write of the request to its target row was carried out and found the row
TargetWritten(ans) ==
    \/ /\ ans.route = "banners.create"
       /\ \E i \in 1..Len(ans.ops) : ans.ops[i] = Op("insert", TRUE)
    \/ /\ ans.route \in {"banners.update", "banners.activate"}
       /\ \E i \in 1..Len(ans.ops) : ans.ops[i] = Op("update", TRUE)
       /\ \E r \in banners : r.id = ans.req[1]

\* the sweep of the request failed
SweepFailed(ans) == \E i \in 1..Len(ans.ops) : ans.ops[i] = Op("sweep", FALSE)

\* C13: a create with is_active true, an update setting is_active true or an
\* activate whose write to the target row succeeded and whose sweep failed
\* is answered 200 with the written row, which is active.
C13_SweepFailureNotSurfaced ==
    (Triggers(last) /\ TargetWritten(last) /\ SweepFailed(last))
    => /\ last.status = 200
       /\ last.body \in banners
       /\ last.body.is_active
       /\ last.route # "banners.create" => last.body.id = last.req[1]

\* an activate whose sweep failed has answered 200 and two banners are active
C13_Witness ==
    /\ last.route = "banners.activate"
    /\ Triggers(last) /\ TargetWritten(last) /\ SweepFailed(last)
    /\ last.status = 200
    /\ Cardinality(ActiveRows(banners)) = 2

\* the same of a create and of an update
C13_WitnessCreate ==
    /\ last.route = "banners.create"
    /\ Triggers(last) /\ TargetWritten(last) /\ SweepFailed(last)
    /\ Cardinality(ActiveRows(banners)) = 2

C13_WitnessUpdate ==
    /\ last.route = "banners.update"
    /\ Triggers(last) /\ TargetWritten(last) /\ SweepFailed(last)
    /\ Cardinality(ActiveRows(banners)) = 2

\* the places of the storage call named op in the calls of the request r
Places(r, op) == {i \in 1..Len(r.ops) : r.ops[i].op = op}

\* the request sweeps: a create or an update with is_active true, an activate
Sweeping(r) == r.route = "banners.activate" \/ r.is_active = "true"

C14_WitnessCreate ==
    \E c \in Clients :
        /\ inflight[c].route = "banners.create"
        /\ inflight[c].pc = "sweep"
        /\ inflight[c].ops = <<Op("insert", TRUE)>>
        /\ Cardinality(ActiveRows(banners)) = 2

\* clients c and d have both been answered 200 for an activate, of two
\* distinct banners, and every storage call of the two was carried out
BothActivated(c, d) ==
    /\ c # d
    /\ \A e \in {c, d} :
          /\ inflight[e].route = "banners.activate"
          /\ inflight[e].pc = "done"
          /\ inflight[e].status = 200
          /\ inflight[e].ops = <<Op("sweep", TRUE), Op("update", TRUE)>>
    /\ inflight[c].id # inflight[d].id

\* client c is between the sweep and the update of an activate
Between(c) ==
    /\ inflight[c].route = "banners.activate"
    /\ inflight[c].pc = "update"

\* C15: nothing orders the storage calls of two activates in flight: the
\* sweep of an activate returns while another client is between its own
\* sweep and update, and neither request is held back or undone for it. The
\* update of an activate answered 200 leaves every row but its target as it
\* was; two activates of distinct banners both answered 200, their calls
\* carried out, leave at least one of the two targets active and no other
\* banner. (That both targets are active then is the state C15_Witness.)
C15_ActivatesInterleave ==
    /\ [](\A c, d \in Clients :
            BothActivated(c, d)
            => /\ ActiveRows(banners) # {}
               /\ \A row \in ActiveRows(banners) : row.id \in {inflight[c].id, inflight[d].id})
    /\ [][\A c \in Clients :
            (Between(c) /\ inflight'[c].pc = "done" /\ inflight'[c].status = 200)
            => /\ [id |-> inflight[c].id, is_active |-> TRUE] \in banners'
               /\ \A row \in banners : row.id # inflight[c].id => row \in banners'
               /\ \A row \in banners' : row.id # inflight[c].id => row \in banners]_vars

\* two activates of distinct banners have both been answered 200, all their
\* storage calls carried out, and both banners are active
C15_Witness ==
    \E c, d \in Clients :
        /\ BothActivated(c, d)
        /\ Cardinality(ActiveRows(banners)) = 2
        /\ {row.id : row \in ActiveRows(banners)} = {inflight[c].id, inflight[d].id}

\* the storage calls the handler of the request made, the gate's lookup left out
HandlerOps(ans) == SelectSeq(ans.ops, LAMBDA o : o.op # "lookup")

\* C16: whatever banners are active, several or none, an activate of an
\* existing banner that runs alone to its end and whose sweep and update both
\* succeed is answered 200 and leaves that banner active and every other
\* banner inactive.
C16_ActivateHeals ==
    [][(/\ Activates(last')
        /\ HandlerOps(last') = <<Op("sweep", TRUE), Op("update", TRUE)>>
        /\ \E r \in banners : r.id = last'.req[1])
       => /\ last'.status = 200
          /\ ActiveRows(banners') = {[id |-> last'.req[1], is_active |-> TRUE]}
          /\ {r.id : r \in banners'} = {r.id : r \in banners}]_vars

\* two banners were active when an activate arrived, and it has left its
\* target the only active one
C16_Witness ==
    /\ Activates(last)
    /\ HandlerOps(last) = <<Op("sweep", TRUE), Op("update", TRUE)>>
    /\ last.status = 200
    /\ Cardinality(last.before) = 2
    /\ ActiveRows(banners) = {last.body}
    /\ last.body.id = last.req[1]

\* the same with no banner active when the activate arrived
C16_WitnessNone ==
    /\ Activates(last)
    /\ HandlerOps(last) = <<Op("sweep", TRUE), Op("update", TRUE)>>
    /\ last.status = 200
    /\ last.before = {}
    /\ Cardinality(banners) = 2
    /\ ActiveRows(banners) = {last.body}

\* ------------------------------------------------------------------------
\* Properties of issued tokens
\* ------------------------------------------------------------------------

\* the token of the request is one a login returned, telling isSuperAdmin = super
IssuedAs(ans, super) ==
    \E t \in issued : t.token = ans.token /\ t.isSuperAdmin = super

\* C17: whatever admin users have been created and deleted since, a request
\* to a guarded route carrying a token that a login returned with
\* isSuperAdmin = false is not resolved by requireAdmin to a super admin, and
\* one carrying a token returned with isSuperAdmin = true is resolved to the
\* super admin.
C17_PrivilegeAgrees ==
    last.route \in GuardedRoutes =>
        /\ IssuedAs(last, FALSE) => ~(Resolved(last) /\ last.admin.isSuperAdmin)
        /\ IssuedAs(last, TRUE) => (Resolved(last) /\ last.admin.isSuperAdmin)

\* both kinds of token have been issued, admin users were created more than
\* once, and a secondary admin's token has been turned away from a users route
C17_Witness ==
    /\ last.route \in SuperRoutes
    /\ IssuedAs(last, FALSE)
    /\ \E t \in issued : t.isSuperAdmin
    /\ Resolved(last)
    /\ ~last.admin.isSuperAdmin
    /\ last.status = 403
    /\ nextUserId > 2

\* the primary admin's token, issued by a login, has passed the gate of a
\* users route
C17_WitnessSuper ==
    /\ last.route \in SuperRoutes
    /\ IssuedAs(last, TRUE)
    /\ last.next
    /\ admin_users # {}

\* admin_users has a row with the email the token of the request decodes to
HasRow(ans) == \E r \in admin_users : r.email = decodeAdminEmail(ans.token)

\* the gate accepted the token of the request as that of a secondary admin
Accepted(ans) ==
    /\ Resolved(ans)
    /\ ans.admin = [email |-> decodeAdminEmail(ans.token), isSuperAdmin |-> FALSE]
    /\ ans.status # 401

\* C18 as stated: a request to a guarded route carrying a token that a login
\* returned to a secondary admin is accepted by the gate exactly when
\* admin_users has a row with the email of the token, and is answered 401
\* otherwise.
C18_ValidExactlyWhileRow ==
    (last.route \in GuardedRoutes /\ IssuedAs(last, FALSE))
    => IF HasRow(last) THEN Accepted(last) ELSE last.status = 401

\* C18 amended: such a request is answered 401 when no row has the email of
\* the token, and also when the gate's lookup of the row fails; it is
\* accepted when a row has the email and the lookup succeeds, be the row the
\* one the login matched or one created later with the same email.
C18_ValidWhileRowFound ==
    (last.route \in GuardedRoutes /\ IssuedAs(last, FALSE))
    => /\ last.ops # <<>>
       /\ last.ops[1].op = "lookup"
       /\ IF HasRow(last) /\ last.ops[1].ok THEN Accepted(last)
          ELSE last.status = 401 /\ ~last.next

\* a token issued for the row with id 1, and for no later row, is accepted
\* when the row with its email is the one with id 2
C18_Witness ==
    /\ last.route \in GuardedRoutes
    /\ IssuedAs(last, FALSE)
    /\ \A t \in issued : t.token = last.token => t.row = 1
    /\ HasRow(last)
    /\ RowOf(decodeAdminEmail(last.token)).id = 2
    /\ Accepted(last)

\* the token is answered 401 after its row was deleted
C18_WitnessDeleted ==
    /\ last.route \in GuardedRoutes
    /\ IssuedAs(last, FALSE)
    /\ ~HasRow(last)
    /\ last.status = 401

\* ------------------------------------------------------------------------
\* Properties of a sweep whose target does not exist
\* ------------------------------------------------------------------------

\* the request is an activate, or an update setting is_active true, that the
\* gate let through, and its id is well-formed and that of no banner row
SweepsForMissing(ans, rows) ==
    /\ ans.next
    /\ \/ ans.route = "banners.activate"
       \/ ans.route = "banners.update" /\ ans.req[2] = "true"
    /\ ans.req[1] # BadId
    /\ \A r \in rows : r.id # ans.req[1]

\* C19: an activate, or an update setting is_active true, whose well-formed
\* id is that of no banner row is answered 500 without a row, its sweep made
\* before the update that finds nothing; the sweep carried out, every banner
\* row is inactive afterwards, those that were active included, and no row
\* is added or removed.
C19_FailedActivateSweeps ==
    [][SweepsForMissing(last', banners) =>
        /\ last'.status = 500
        /\ last'.body = NoBody
        /\ Len(HandlerOps(last')) = 2
        /\ HandlerOps(last')[1].op = "sweep"
        /\ HandlerOps(last')[2].op = "update"
        /\ HandlerOps(last')[1].ok => ActiveRows(banners') = {}
        /\ {r.id : r \in banners'} = {r.id : r \in banners}]_vars

\* an activate of an id that no row has was answered 500 and the banner
\* that was active is not any more
C19_Witness ==
    /\ last.route = "banners.activate"
    /\ SweepsForMissing(last, banners)
    /\ last.status = 500
    /\ last.before # {}
    /\ banners # {}
    /\ ActiveRows(banners) = {}

\* the same of an update setting is_active true
C19_WitnessUpdate ==
    /\ last.route = "banners.update"
    /\ SweepsForMissing(last, banners)
    /\ last.status = 500
    /\ last.before # {}
    /\ ActiveRows(banners) = {}

====
